---- MODULE Spec2Model ----
(***************************************************************************)
(* A model of blues/reporters.py: the three reporters' cadence decision    *)
(* (describeNextReport), their write-on-report protocol (report), the      *)
(* BLUESStateDataReporter header/value construction and the                *)
(* ReporterConfig factory.                                                 *)
(***************************************************************************)
EXTENDS Integers, Sequences, FiniteSets, TLC

(* ------------------------------ bounds --------------------------------- *)
\* largest reportInterval a reporter is constructed with
MaxInterval == 3
\* largest simulation.currentStep the driver reaches in the report protocol
MaxStep == 2
\* largest simulation.currentStep the driver reaches in the cadence runs
MaxCadenceStep == 100
\* number of report calls made on one reporter instance
MaxReports == 3
\* number of report calls made on one instance in the all-flags runs
MaxFlagReports == 1
\* largest reading of the wall clock (time.time())
MaxClock == 1
\* most addLoggingLevel calls in a run
MaxLogCalls == 3
\* twin runs: most report calls, and the last step
MaxTwinReports == 2
MaxTwinStep == 1

None == "None"

Kinds == {"HDF5", "State", "NetCDF"}

VARIABLES
    kind,                \* which reporter class the instance is
    frame_arg,           \* the frame_indices argument given to __init__
    frame_indices,       \* self.frame_indices
    reportInterval,      \* self._reportInterval
    flags,               \* the option flags of the instance that are True
    hasFlush,            \* the output object has a flush operation
    hasReport,           \* the output object has a report operation
    initialized,         \* _is_intialized / _hasInitialized / _out is not None
    initVals,            \* _initialClockTime, _initialSimulationTime, _initialSteps
    uses_pbc,            \* NetCDF4Reporter.uses_pbc
    lines,               \* what the store has received, in order
    flushed,             \* how many entries of lines a flush has pushed out
    ncframes,            \* NetCDF file: frames received per variable
    setups,              \* how many times the one-time setup has run
    attempts,            \* report calls begun
    completed,           \* report calls that returned
    raised,              \* exception of the last report call, or None
    sim,                 \* the simulation object handed to the reporter
    state,               \* the state snapshot handed to the reporter
    clock,               \* the last reading of time.time()
    ret,                 \* the value of the last describeNextReport call
    cfg,                 \* ReporterConfig._cfg
    logger,              \* ReporterConfig._logger
    trajectory_interval, \* ReporterConfig.trajectory_interval
    Reporters,           \* the list makeReporters builds
    outcome,             \* how the last makeReporters call ended
    twin,                \* a second run of the state data reporter on the same input
    pc,                  \* where the simulation loop stands
    reportedAt,          \* the steps at which the loop has called report
    registry,            \* the logging module: level names, attributes, Logger methods
    warnings,            \* how many warnings addLoggingLevel has logged
    lastCall,            \* the arguments of the last addLoggingLevel call
    logRaised,           \* exception of the last addLoggingLevel call, or None
    m_arg,               \* _check_mode: the m argument
    modes_arg,           \* _check_mode: the modes argument
    modeOutcome          \* how the last _check_mode call ended

reporterVars == <<kind, frame_arg, frame_indices, reportInterval, flags, hasFlush,
                  hasReport>>
storeVars == <<initialized, initVals, uses_pbc, lines, flushed, ncframes, setups,
               attempts, completed, raised>>
worldVars == <<sim, state, clock>>
factoryVars == <<cfg, logger, trajectory_interval, Reporters, outcome>>
driverVars == <<pc, reportedAt>>
loggingVars == <<registry, warnings, lastCall, logRaised>>
modeVars == <<m_arg, modes_arg, modeOutcome>>
extraVars == <<twin, driverVars, loggingVars, modeVars>>
vars == <<reporterVars, storeVars, worldVars, ret, factoryVars, extraVars>>

(* ------------------------- the outside world --------------------------- *)
\* State snapshots the engine hands over.  bad: the inherited
\* _checkForErrors rejects the snapshot (energy is NaN or infinite).
\* time in ps, energies in kJ/mol, box edges and positions in nm; natom is
\* the length of the position, velocity and force arrays.
Snapshots ==
    { [time |-> 0, pe |-> 5, ke |-> 3, box |-> <<2, 3, 5>>, pos |-> 7, vel |-> 8,
       frc |-> 9, natom |-> 2, bad |-> FALSE],
      [time |-> 13, pe |-> 17, ke |-> 19, box |-> <<2, 3, 5>>, pos |-> 1, vel |-> 2,
       frc |-> 3, natom |-> 2, bad |-> FALSE],
      [time |-> 13, pe |-> 0, ke |-> 0, box |-> <<2, 3, 5>>, pos |-> 1, vel |-> 2,
       frc |-> 3, natom |-> 2, bad |-> TRUE] }

\* The simulation object: currentStep, the optional currentIter attribute,
\* the integrator's lambda and protocol work, and whether the topology has
\* unit cell dimensions.
Simulations(maxStep) ==
    [currentStep : 0..maxStep, currentIter : {-1, 2}, lambda : {7}, work : {11},
     hasBox : BOOLEAN]

\* hasattr(simulation, 'currentIter'): the absent attribute is written -1
HasCurrentIter(simulation) == simulation.currentIter # -1

(* --------------------------- constructors ------------------------------ *)
\* frame_indices as stored by the three __init__ methods
StoredFrames(F) ==
    IF F # {} THEN {x - 1 : x \in F} ELSE F

(* ------------------------ describeNextReport --------------------------- *)
\* a slip: the steps already taken in the interval instead of those left
BLUESHDF5Reporter_steps_taken(currentStep) ==
    IF frame_indices # {}
    THEN IF currentStep \in frame_indices THEN 1 ELSE -1
    ELSE currentStep % reportInterval

BLUESHDF5Reporter_steps(currentStep) ==
    IF frame_indices # {}
    THEN IF currentStep \in frame_indices THEN 1 ELSE -1
    ELSE reportInterval - (currentStep % reportInterval)

\* a slip: the interval consulted although a frame list is configured
BLUESStateDataReporter_steps_mixed(currentStep) ==
    IF frame_indices # {} /\ currentStep \in frame_indices THEN 1
    ELSE reportInterval - (currentStep % reportInterval)

BLUESStateDataReporter_steps(currentStep) ==
    IF frame_indices # {}
    THEN IF currentStep \in frame_indices THEN 1 ELSE -1
    ELSE reportInterval - (currentStep % reportInterval)

\* a slip: the remainder taken of the step after the current one
NetCDF4Reporter_steps_shifted(currentStep) ==
    IF frame_indices # {}
    THEN IF currentStep \in frame_indices THEN 1 ELSE -1
    ELSE reportInterval - ((currentStep + 1) % reportInterval)

NetCDF4Reporter_steps(currentStep) ==
    IF frame_indices # {}
    THEN IF currentStep \in frame_indices THEN 1 ELSE -1
    ELSE reportInterval - (currentStep % reportInterval)


\* the first element of the tuple describeNextReport returns, with the four
\* need-flags after it
BLUESHDF5Reporter_describeNextReport(simulation) ==
    <<BLUESHDF5Reporter_steps(simulation.currentStep),
      "coordinates" \in flags, "velocities" \in flags, FALSE,
      flags \cap {"potentialEnergy", "kineticEnergy", "temperature"} # {}>>

BLUESStateDataReporter_describeNextReport(simulation) ==
    <<BLUESStateDataReporter_steps(simulation.currentStep),
      FALSE, FALSE, FALSE,
      flags \cap {"potentialEnergy", "kineticEnergy", "totalEnergy", "temperature"}
          # {}>>

NetCDF4Reporter_describeNextReport(simulation) ==
    <<NetCDF4Reporter_steps(simulation.currentStep),
      "crds" \in flags, "vels" \in flags, "frcs" \in flags, FALSE>>

(* ------------------- BLUESStateDataReporter columns -------------------- *)
StateFlags ==
    {"currentIter", "progress", "step", "time", "alchemicalLambda", "protocolWork",
     "potentialEnergy", "kineticEnergy", "totalEnergy", "temperature", "volume",
     "density", "speed", "elapsedTime", "remainingTime"}

\* constructor arguments and the constants _initializeConstants computes
StateParams == [totalSteps |-> 4, dof |-> 3, totalMass |-> 60]

\* headers.append(x) / values.append(x) under "if flag:"
AppendIf(seq, cond, x) == IF cond THEN Append(seq, x) ELSE seq

\* a slip: protocolWork listed before alchemicalLambda
BLUESStateDataReporter_constructHeaders_swapped(fl) ==
    LET h1 == AppendIf(<<>>, "currentIter" \in fl, "Iter")
        h2 == AppendIf(h1, "progress" \in fl, "Progress (%)")
        h3 == AppendIf(h2, "step" \in fl, "Step")
        h4 == AppendIf(h3, "time" \in fl, "Time (ps)")
        h5 == AppendIf(h4, "protocolWork" \in fl, "protocolWork")
        h6 == AppendIf(h5, "alchemicalLambda" \in fl, "alchemicalLambda")
        h7 == AppendIf(h6, "potentialEnergy" \in fl, "Potential Energy (kJ/mole)")
        h8 == AppendIf(h7, "kineticEnergy" \in fl, "Kinetic Energy (kJ/mole)")
        h9 == AppendIf(h8, "totalEnergy" \in fl, "Total Energy (kJ/mole)")
        h10 == AppendIf(h9, "temperature" \in fl, "Temperature (K)")
        h11 == AppendIf(h10, "volume" \in fl, "Box Volume (nm^3)")
        h12 == AppendIf(h11, "density" \in fl, "Density (g/mL)")
        h13 == AppendIf(h12, "speed" \in fl, "Speed (ns/day)")
        h14 == AppendIf(h13, "elapsedTime" \in fl, "Elapsed Time (s)")
        h15 == AppendIf(h14, "remainingTime" \in fl, "Time Remaining")
    IN h15

BLUESStateDataReporter_constructHeaders(fl) ==
    LET h1 == AppendIf(<<>>, "currentIter" \in fl, "Iter")
        h2 == AppendIf(h1, "progress" \in fl, "Progress (%)")
        h3 == AppendIf(h2, "step" \in fl, "Step")
        h4 == AppendIf(h3, "time" \in fl, "Time (ps)")
        h5 == AppendIf(h4, "alchemicalLambda" \in fl, "alchemicalLambda")
        h6 == AppendIf(h5, "protocolWork" \in fl, "protocolWork")
        h7 == AppendIf(h6, "potentialEnergy" \in fl, "Potential Energy (kJ/mole)")
        h8 == AppendIf(h7, "kineticEnergy" \in fl, "Kinetic Energy (kJ/mole)")
        h9 == AppendIf(h8, "totalEnergy" \in fl, "Total Energy (kJ/mole)")
        h10 == AppendIf(h9, "temperature" \in fl, "Temperature (K)")
        h11 == AppendIf(h10, "volume" \in fl, "Box Volume (nm^3)")
        h12 == AppendIf(h11, "density" \in fl, "Density (g/mL)")
        h13 == AppendIf(h12, "speed" \in fl, "Speed (ns/day)")
        h14 == AppendIf(h13, "elapsedTime" \in fl, "Elapsed Time (s)")
        h15 == AppendIf(h14, "remainingTime" \in fl, "Time Remaining")
    IN h15

\* A reported value: how it is printed (str() of an int, str() of a float,
\* or a format string) and the number a/b.
Whole(a) == [fmt |-> "int", a |-> a, b |-> 1]
Num(a) == [fmt |-> "float", a |-> a, b |-> 1]
Quot(a, b) == [fmt |-> "float", a |-> a, b |-> b]
Dashes == [fmt |-> "--", a |-> 0, b |-> 1]

\* int(n/d) for d > 0: truncation toward zero
Trunc(n, d) == IF n >= 0 THEN n \div d ELSE -((-n) \div d)

\* '%.1f%%' % (100.0 * step / total): tenths of a percent, to nearest
Percent(step, total) ==
    [fmt |-> "%.1f%%", a |-> (2000 * step + total) \div (2 * total), b |-> 10]

\* lines 664-686: the "Time Remaining" value
RemainingTime(currentStep, clockTime, iv) ==
    LET elapsedSeconds == clockTime - iv.clock
        elapsedSteps == currentStep - iv.steps
        total == (StateParams.totalSteps - iv.steps) * elapsedSeconds
        rs0 == Trunc(total - elapsedSeconds * elapsedSteps, elapsedSteps)
        days == rs0 \div 86400
        rs1 == rs0 - days * 86400
        hours == rs1 \div 3600
        rs2 == rs1 - hours * 3600
        minutes == rs2 \div 60
        rs3 == rs2 - minutes * 60
        digits == ((days * 100 + hours) * 100 + minutes) * 100 + rs3
    IN IF elapsedSteps = 0 THEN Dashes
       ELSE IF days > 0 THEN [fmt |-> "%d:%d:%02d:%02d", a |-> digits, b |-> 1]
       ELSE IF hours > 0 THEN [fmt |-> "%d:%02d:%02d", a |-> digits, b |-> 1]
       ELSE IF minutes > 0 THEN [fmt |-> "%d:%02d", a |-> digits, b |-> 1]
       ELSE [fmt |-> "0:%02d", a |-> rs3, b |-> 1]

\* lines 655-661: the "Speed (ns/day)" value; state times are in ps
Speed(st, clockTime, iv) ==
    IF clockTime - iv.clock > 0
    THEN [fmt |-> "%.3g", a |-> (st.time - iv.simTime) * 86400,
          b |-> (clockTime - iv.clock) * 1000]
    ELSE Dashes

\* a slip: currentIter reset whenever the flag is on
IterAfterReport_reset(fl, simulation) ==
    IF "currentIter" \in fl THEN 0
    ELSE simulation.currentIter

\* simulation.currentIter as lines 623-626 leave it
IterAfterReport(fl, simulation) ==
    IF "currentIter" \in fl /\ ~HasCurrentIter(simulation) THEN 0
    ELSE simulation.currentIter

\* a slip: the Time column filled from the wall clock instead of the snapshot
BLUESStateDataReporter_constructReportValues_wallclock(fl, simulation, st, iv, clockTime, clock2) ==
    LET volume == st.box[1] * st.box[2] * st.box[3]
        v1 == AppendIf(<<>>, "currentIter" \in fl, Whole(IterAfterReport(fl, simulation)))
        v2 == AppendIf(v1, "progress" \in fl,
                       Percent(simulation.currentStep, StateParams.totalSteps))
        v3 == AppendIf(v2, "step" \in fl, Whole(simulation.currentStep))
        v4 == AppendIf(v3, "time" \in fl, Num(clockTime))
        v5 == AppendIf(v4, "alchemicalLambda" \in fl, Num(simulation.lambda))
        v6 == AppendIf(v5, "protocolWork" \in fl, Num(simulation.work))
        v7 == AppendIf(v6, "potentialEnergy" \in fl, Num(st.pe))
        v8 == AppendIf(v7, "kineticEnergy" \in fl, Num(st.ke))
        v9 == AppendIf(v8, "totalEnergy" \in fl, Num(st.ke + st.pe))
        v10 == AppendIf(v9, "temperature" \in fl, Quot(2 * st.ke, StateParams.dof))
        v11 == AppendIf(v10, "volume" \in fl, Num(volume))
        v12 == AppendIf(v11, "density" \in fl, Quot(StateParams.totalMass, volume))
        v13 == AppendIf(v12, "speed" \in fl, Speed(st, clockTime, iv))
        v14 == AppendIf(v13, "elapsedTime" \in fl, Num(clock2 - iv.clock))
        v15 == AppendIf(v14, "remainingTime" \in fl,
                        RemainingTime(simulation.currentStep, clockTime, iv))
    IN v15

\* clockTime is the time.time() of line 622, clock2 the one of line 663
BLUESStateDataReporter_constructReportValues(fl, simulation, st, iv, clockTime, clock2) ==
    LET volume == st.box[1] * st.box[2] * st.box[3]
        v1 == AppendIf(<<>>, "currentIter" \in fl, Whole(IterAfterReport(fl, simulation)))
        v2 == AppendIf(v1, "progress" \in fl,
                       Percent(simulation.currentStep, StateParams.totalSteps))
        v3 == AppendIf(v2, "step" \in fl, Whole(simulation.currentStep))
        v4 == AppendIf(v3, "time" \in fl, Num(st.time))
        v5 == AppendIf(v4, "alchemicalLambda" \in fl, Num(simulation.lambda))
        v6 == AppendIf(v5, "protocolWork" \in fl, Num(simulation.work))
        v7 == AppendIf(v6, "potentialEnergy" \in fl, Num(st.pe))
        v8 == AppendIf(v7, "kineticEnergy" \in fl, Num(st.ke))
        v9 == AppendIf(v8, "totalEnergy" \in fl, Num(st.ke + st.pe))
        v10 == AppendIf(v9, "temperature" \in fl, Quot(2 * st.ke, StateParams.dof))
        v11 == AppendIf(v10, "volume" \in fl, Num(volume))
        v12 == AppendIf(v11, "density" \in fl, Quot(StateParams.totalMass, volume))
        v13 == AppendIf(v12, "speed" \in fl, Speed(st, clockTime, iv))
        v14 == AppendIf(v13, "elapsedTime" \in fl, Num(clock2 - iv.clock))
        v15 == AppendIf(v14, "remainingTime" \in fl,
                        RemainingTime(simulation.currentStep, clockTime, iv))
    IN v15


(* ------------------------------ stores --------------------------------- *)
NoRet == <<>>
NoInit == [clock |-> 0, simTime |-> 0, steps |-> 0, natom |-> 0]

NcVars == {"coordinates", "velocities", "forces", "cell_lengths_angles",
           "protocolWork", "alchemicalLambda", "time"}
NoFrames == [v \in NcVars |-> 0]

\* number of records (not headers) the store holds
Records ==
    IF kind = "NetCDF" THEN ncframes["time"]
    ELSE Cardinality({i \in 1..Len(lines) : lines[i].type # "header"})

\* BLUESHDF5TrajectoryFile.write and the NetCDF4Traj.add_* methods: each
\* appends one entry / one frame of one variable
FileWrite(store, entry) == Append(store, entry)
AddFrame(frames, var) == [frames EXCEPT ![var] = @ + 1]
\* NetCDF4Traj flushes the file at the end of every add_* method
NcSynced(frames) == frames["time"]

\* self._checkForErrors(simulation, state), inherited: raises ValueError on
\* a NaN or infinite energy when the reporter needs energies
CheckForErrorsRaises(needEnergy, st) == needEnergy /\ st.bad

(* ---------------------- BLUESHDF5Reporter.report ----------------------- *)
HDF5Flags ==
    {"coordinates", "time", "cell", "potentialEnergy", "kineticEnergy",
     "temperature", "velocities", "protocolWork", "alchemicalLambda", "title",
     "parameters", "environment"}

\* lines 390-424: the arguments handed to _traj_file.write
HDF5Frame(fl, simulation, st) ==
    LET value(f) ==
            CASE f = "coordinates" -> Num(st.pos)
              [] f = "time" -> Num(st.time)
              [] f = "cell" -> Num(st.box[1] * st.box[2] * st.box[3])
              [] f = "potentialEnergy" -> Num(st.pe)
              [] f = "kineticEnergy" -> Num(st.ke)
              [] f = "temperature" -> Quot(2 * st.ke, StateParams.dof)
              [] f = "velocities" -> Num(st.vel)
              [] f = "protocolWork" -> Num(simulation.work)
              [] f = "alchemicalLambda" -> Num(simulation.lambda)
              [] OTHER -> Num(1)
    IN [f \in fl |-> value(f)]

BLUESHDF5Reporter_report ==
    /\ kind = "HDF5"
    /\ attempts < MaxReports
    /\ attempts' = attempts + 1
    /\ initialized' = TRUE
    /\ setups' = IF initialized THEN setups ELSE setups + 1
    /\ IF CheckForErrorsRaises(BLUESHDF5Reporter_describeNextReport(sim)[5], state)
       THEN /\ raised' = "ValueError"
            /\ UNCHANGED <<lines, flushed, completed>>
       ELSE /\ lines' = FileWrite(lines, [type |-> "frame", via |-> "write",
                                          cols |-> HDF5Frame(flags, sim, state)])
            /\ flushed' = IF hasFlush THEN Len(lines') ELSE flushed
            /\ completed' = completed + 1
            /\ raised' = None
    /\ UNCHANGED <<reporterVars, initVals, uses_pbc, ncframes, worldVars, ret,
                   factoryVars>>

(* -------------------- BLUESStateDataReporter.report -------------------- *)
\* self.log.info is rebound to self.log.report when the log has one
Via == IF hasReport THEN "report" ELSE "info"

\* a slip: the flush after the write left out
FlushOut_skipped(store, wasFlushed) == wasFlushed

\* try: self._out.flush() except AttributeError: pass
FlushOut(store, wasFlushed) == IF hasFlush THEN Len(store) ELSE wasFlushed

\* a slip: the handler around the flush written for another exception
Swallows_IOError(exc) == exc = "IOError"

\* except AttributeError: pass
Swallows(exc) == exc = "AttributeError"

\* self._out.flush() on an output without that method raises AttributeError
FlushError == IF hasFlush THEN None ELSE "AttributeError"

\* the exception a flush attempt lets out of report, or None
FlushEscape ==
    IF FlushError # None /\ ~Swallows(FlushError) THEN FlushError ELSE None

\* a slip: the error check moved in front of the one-time setup, so that a
\* rejected snapshot leaves the instance as it was
InitializedAfter_checkFirst(was, checkRaised) == was \/ ~checkRaised

\* self._hasInitialized = True (line 586) stands before self._checkForErrors
\* (line 589): the flag is set whether or not the check raises
InitializedAfter(was, checkRaised) == TRUE

\* a slip: the initialized flag not consulted
State_needsInit_always == TRUE

\* if not self._hasInitialized:
State_needsInit == ~initialized

\* self.log.info('#"%s"' % ...join(headers)) and
\* self.log.info('%s: %s' % (self.title, ...join(str(v) for v in values)))
WithHeader(store, headers) ==
    Append(store, [type |-> "header", via |-> Via, cols |-> headers])
\* a slip: the record logged through both info and report
WithRecord_twice(store, values) ==
    Append(Append(store, [type |-> "record", via |-> "info", cols |-> values]),
           [type |-> "record", via |-> "report", cols |-> values])

WithRecord(store, values) ==
    Append(store, [type |-> "record", via |-> Via, cols |-> values])

StateReport(limit) ==
    /\ kind = "State"
    /\ attempts < limit
    /\ attempts' = attempts + 1
    /\ \E c0 \in clock..MaxClock :
         LET first == State_needsInit
             iv == IF first
                   THEN [clock |-> c0, simTime |-> state.time,
                         steps |-> sim.currentStep, natom |-> 0]
                   ELSE initVals
             now == IF first THEN c0 ELSE clock
             headed == IF first
                       THEN WithHeader(lines,
                                BLUESStateDataReporter_constructHeaders(flags))
                       ELSE lines
             flushed1 == IF first THEN FlushOut(headed, flushed) ELSE flushed
             checkRaised == CheckForErrorsRaises(
                      BLUESStateDataReporter_describeNextReport(sim)[5], state)
         IN /\ first \/ c0 = clock
            /\ IF first /\ FlushEscape # None
               THEN \* the flush after the header raises: lines 583-600 not run
                    /\ raised' = FlushEscape
                    /\ lines' = headed
                    /\ c0 = clock
                    /\ UNCHANGED <<initialized, initVals, setups, flushed, clock,
                                   completed, sim>>
               ELSE /\ initialized' = InitializedAfter(initialized, checkRaised)
                    /\ initVals' = iv
                    /\ setups' = IF first THEN setups + 1 ELSE setups
                    /\ IF checkRaised
                       THEN /\ raised' = "ValueError"
                            /\ lines' = headed
                            /\ flushed' = flushed1
                            /\ clock' = now
                            /\ UNCHANGED <<completed, sim>>
                       ELSE \E c1 \in now..MaxClock : \E c2 \in c1..MaxClock :
                            /\ lines' = WithRecord(headed,
                                   BLUESStateDataReporter_constructReportValues(
                                       flags, sim, state, iv, c1, c2))
                            /\ sim' = [sim EXCEPT
                                         !.currentIter = IterAfterReport(flags, sim)]
                            /\ clock' = c2
                            /\ IF FlushEscape # None
                               THEN \* the flush after the record raises
                                    /\ raised' = FlushEscape
                                    /\ UNCHANGED <<flushed, completed>>
                               ELSE /\ flushed' = FlushOut(lines', flushed1)
                                    /\ completed' = completed + 1
                                    /\ raised' = None
    /\ UNCHANGED <<reporterVars, uses_pbc, ncframes, state, ret, factoryVars>>

BLUESStateDataReporter_report == StateReport(MaxReports)

(* ------------------------ NetCDF4Reporter.report ----------------------- *)
NetCDFFlags == {"crds", "vels", "frcs", "protocolWork", "alchemicalLambda"}

\* parmed's NetCDFReporter.__init__, which line 769 calls, rejects a
\* reporter that writes none of coordinates, velocities and forces
NetCDF4Reporter_init_accepts(fl) == fl \cap {"crds", "vels", "frcs"} # {}

\* the local name atom without a value
Unassigned == -1

\* a slip: atom given a default before the if/elif chain
AtomCount_defaulted(fl, st) ==
    IF "crds" \in fl THEN st.natom
    ELSE IF "vels" \in fl THEN st.natom
    ELSE IF "frcs" \in fl THEN st.natom
    ELSE 0

\* lines 828-833
AtomCount(fl, st) ==
    IF "crds" \in fl THEN st.natom
    ELSE IF "vels" \in fl THEN st.natom
    ELSE IF "frcs" \in fl THEN st.natom
    ELSE Unassigned

\* a slip: the forces frame written under the velocities flag
NetCDFFramesAfter_frcsUnderVels(frames, fl, pbc) ==
    LET f0 == IF pbc THEN AddFrame(frames, "cell_lengths_angles") ELSE frames
        f1 == IF "crds" \in fl THEN AddFrame(f0, "coordinates") ELSE f0
        f2 == IF "vels" \in fl THEN AddFrame(f1, "velocities") ELSE f1
        f3 == IF "vels" \in fl THEN AddFrame(f2, "forces") ELSE f2
        f4 == IF "protocolWork" \in fl THEN AddFrame(f3, "protocolWork") ELSE f3
        f5 == IF "alchemicalLambda" \in fl THEN AddFrame(f4, "alchemicalLambda") ELSE f4
    IN AddFrame(f5, "time")

\* lines 847-865: the frames one report call adds
NetCDFFramesAfter(frames, fl, pbc) ==
    LET f0 == IF pbc THEN AddFrame(frames, "cell_lengths_angles") ELSE frames
        f1 == IF "crds" \in fl THEN AddFrame(f0, "coordinates") ELSE f0
        f2 == IF "vels" \in fl THEN AddFrame(f1, "velocities") ELSE f1
        f3 == IF "frcs" \in fl THEN AddFrame(f2, "forces") ELSE f2
        f4 == IF "protocolWork" \in fl THEN AddFrame(f3, "protocolWork") ELSE f3
        f5 == IF "alchemicalLambda" \in fl THEN AddFrame(f4, "alchemicalLambda") ELSE f4
    IN AddFrame(f5, "time")

NetCDF4Reporter_write ==
    /\ kind = "NetCDF"
    /\ attempts < MaxReports
    /\ attempts' = attempts + 1
    /\ LET first == ~initialized
           pbc == IF first THEN sim.hasBox ELSE uses_pbc
       IN /\ uses_pbc' = pbc
          /\ IF first /\ AtomCount(flags, state) = Unassigned
             THEN \* evaluating the arguments of open_new (line 837) raises
                  /\ raised' = "UnboundLocalError"
                  /\ UNCHANGED <<initialized, setups, initVals, ncframes, flushed,
                                 completed>>
             ELSE /\ initialized' = TRUE
                  /\ setups' = IF first THEN setups + 1 ELSE setups
                  /\ initVals' = IF first
                                 THEN [NoInit EXCEPT !.natom = AtomCount(flags, state)]
                                 ELSE initVals
                  /\ ncframes' = NetCDFFramesAfter(ncframes, flags, pbc)
                  /\ flushed' = NcSynced(ncframes')
                  /\ completed' = completed + 1
                  /\ raised' = None
    /\ UNCHANGED <<reporterVars, lines, ret, factoryVars>>

\* a slip: the snapshot's positions converted to angstrom in place
NetCDF4Reporter_report_inplace ==
    /\ NetCDF4Reporter_write
    /\ state' = [state EXCEPT !.pos = 10 * @]
    /\ UNCHANGED <<sim, clock>>

NetCDF4Reporter_report ==
    /\ NetCDF4Reporter_write
    /\ UNCHANGED worldVars

(* ---------------------------- the driver ------------------------------- *)
\* the simulation loop steps the integrator and takes a new snapshot
Step(maxStep, snaps) ==
    /\ sim.currentStep < maxStep
    /\ sim' = [sim EXCEPT !.currentStep = @ + 1]
    /\ state' \in snaps
    /\ ret' = NoRet
    /\ UNCHANGED <<reporterVars, storeVars, clock, factoryVars, extraVars>>

Advance == Step(MaxStep, Snapshots)

HDF5_describe ==
    /\ kind = "HDF5"
    /\ ret' = BLUESHDF5Reporter_describeNextReport(sim)
    /\ UNCHANGED <<reporterVars, storeVars, worldVars, factoryVars, extraVars>>

State_describe ==
    /\ kind = "State"
    /\ ret' = BLUESStateDataReporter_describeNextReport(sim)
    /\ UNCHANGED <<reporterVars, storeVars, worldVars, factoryVars, extraVars>>

NetCDF_describe ==
    /\ kind = "NetCDF"
    /\ ret' = NetCDF4Reporter_describeNextReport(sim)
    /\ UNCHANGED <<reporterVars, storeVars, worldVars, factoryVars, extraVars>>


(* -------------------------- ReporterConfig ----------------------------- *)
RecognizedKeys == <<"state", "traj_netcdf", "restart", "progress", "stream">>
UnknownKey == "minimize"
AllKeys == {RecognizedKeys[i] : i \in 1..Len(RecognizedKeys)} \cup {UnknownKey}

\* self._outfname
OutPrefix == "blues"

\* an option sub-mapping with an outfname entry (or none) and a
\* reportInterval entry (none when n = 0)
OptMap(named, n) ==
    [o \in (IF named THEN {"outfname"} ELSE {}) \cup
           (IF n > 0 THEN {"reportInterval"} ELSE {})
       |-> IF o = "outfname" THEN "custom" ELSE n]

Absent == [o \in {"absent"} |-> 0]

OptionsFor(k) ==
    CASE k = "traj_netcdf" -> {OptMap(b, n) : b \in BOOLEAN, n \in 0..MaxInterval}
      [] k = "state" -> {OptMap(b, n) : b \in BOOLEAN, n \in {0, MaxInterval}}
      [] k = "stream" -> {OptMap(b, 1) : b \in BOOLEAN}
      [] k = UnknownKey -> {OptMap(FALSE, 1)}
      [] OTHER -> {OptMap(b, 1) : b \in BOOLEAN}

Extension(k) ==
    CASE k = "state" -> ".ene"
      [] k = "traj_netcdf" -> ".nc"
      [] k = "restart" -> ".rst7"
      [] k = "progress" -> ".prog"
      [] OTHER -> ""

Class(k) ==
    CASE k = "state" -> "parmed.openmm.reporters.StateDataReporter"
      [] k = "traj_netcdf" -> "NetCDF4Reporter"
      [] k = "restart" -> "parmed.openmm.reporters.RestartReporter"
      [] k = "progress" -> "parmed.openmm.reporters.ProgressReporter"
      [] OTHER -> "blues.reporters.BLUESStateDataReporter"

\* the keyword parameters of the two constructors this file defines
NetCDF4Reporter_params ==
    {"reportInterval", "frame_indices", "crds", "vels", "frcs", "protocolWork",
     "alchemicalLambda"}
BLUESStateDataReporter_params ==
    {"reportInterval", "frame_indices", "title", "step", "time", "potentialEnergy",
     "kineticEnergy", "totalEnergy", "temperature", "volume", "density", "progress",
     "remainingTime", "speed", "elapsedTime", "separator", "systemMass",
     "totalSteps", "protocolWork", "alchemicalLambda", "currentIter"}

\* Does Class(k)(file, **opts) build a reporter?  A keyword the signature
\* lacks is a TypeError.  The parmed constructors are outside this file:
\* whether they take an outfname keyword is the choice ext.
Builds(k, opts, ext) ==
    CASE k = "traj_netcdf" -> DOMAIN opts \subseteq NetCDF4Reporter_params
      [] k = "stream" -> DOMAIN opts \subseteq BLUESStateDataReporter_params
      [] OTHER -> "outfname" \notin DOMAIN opts \/ ext

\* the file name handed to the constructor of kind k
FileName(k, opts) ==
    (IF "outfname" \in DOMAIN opts THEN opts["outfname"] ELSE OutPrefix)
        \o Extension(k)

\* a slip: the interval of any reporter kind recorded
IntervalAfter_anyKind(k, opts, interval) ==
    IF "reportInterval" \in DOMAIN opts THEN opts["reportInterval"] ELSE interval

\* lines 211-212
IntervalAfter(k, opts, interval) ==
    IF k = "traj_netcdf" /\ "reportInterval" \in DOMAIN opts
    THEN opts["reportInterval"] ELSE interval

\* one "if key in self._cfg.keys():" block of makeReporters
Block(acc, k, ext) ==
    IF acc.error # None \/ k \notin DOMAIN cfg THEN acc
    ELSE LET opts == cfg[k]
             lg == IF k = "stream" /\ acc.logger = None
                   THEN "blues.reporters" ELSE acc.logger
             ti == IntervalAfter(k, opts, acc.interval)
             rep == [class |-> Class(k),
                     file |-> IF k = "stream" THEN lg ELSE FileName(k, opts),
                     kwargs |-> opts,
                     netcdf |-> k = "restart"]
         IN IF Builds(k, opts, ext)
            THEN [list |-> Append(acc.list, rep), interval |-> ti, logger |-> lg,
                  error |-> None]
            ELSE [list |-> acc.list, interval |-> ti, logger |-> lg,
                  error |-> "TypeError: " \o Class(k)]

\* a slip: a reporter built for a key the factory does not know
MakeReportersResult_unknownKey(ext) ==
    LET a0 == [list |-> <<>>, interval |-> trajectory_interval, logger |-> logger,
               error |-> None]
        a1 == Block(a0, "state", ext)
        a2 == Block(a1, "traj_netcdf", ext)
        a3 == Block(a2, "restart", ext)
        a4 == Block(a3, "progress", ext)
        a5 == Block(a4, "stream", ext)
    IN Block(a5, UnknownKey, ext)

MakeReportersResult(ext) ==
    LET a0 == [list |-> <<>>, interval |-> trajectory_interval, logger |-> logger,
               error |-> None]
        a1 == Block(a0, "state", ext)
        a2 == Block(a1, "traj_netcdf", ext)
        a3 == Block(a2, "restart", ext)
        a4 == Block(a3, "progress", ext)
        a5 == Block(a4, "stream", ext)
    IN a5

makeReporters ==
    /\ outcome = "constructed"
    /\ \E ext \in BOOLEAN :
         LET r == MakeReportersResult(ext)
         IN /\ Reporters' = IF r.error = None THEN r.list ELSE <<>>
            /\ trajectory_interval' = r.interval
            /\ logger' = r.logger
            /\ outcome' = IF r.error = None THEN "returned" ELSE r.error
    /\ UNCHANGED <<cfg, reporterVars, storeVars, worldVars, ret, extraVars>>

(* --------------------------- initial states ---------------------------- *)
FrameLists == {{}, {1, 3}}

HDF5FlagChoices ==
    { {"coordinates", "cell", "protocolWork", "alchemicalLambda", "title",
       "environment"},
      {"coordinates", "time", "potentialEnergy", "velocities", "title"} }

StateFlagChoices ==
    { {"step", "time", "potentialEnergy"},
      {"currentIter", "progress", "step", "speed", "remainingTime"},
      {"currentIter", "alchemicalLambda", "protocolWork", "potentialEnergy",
       "elapsedTime"} }

(* --------------------------- _check_mode ------------------------------- *)
\* file modes a caller may pass
FileModes == {"r", "w", "a", "r+"}

\* a slip: the membership test inverted
check_mode_inverted(m, modes) == IF m \in modes THEN "ValueError" ELSE "returned"

\* _check_mode(m, modes), lines 19-24: how the call ends
check_mode(m, modes) == IF m \notin modes THEN "ValueError" ELSE "returned"

\* one call of _check_mode; the function assigns nothing
CheckMode ==
    /\ modeOutcome = "none"
    /\ modeOutcome' = check_mode(m_arg, modes_arg)
    /\ UNCHANGED <<m_arg, modes_arg, reporterVars, storeVars, worldVars, ret,
                   factoryVars, twin, driverVars, loggingVars>>

(* -------------------------- addLoggingLevel ---------------------------- *)
\* level and method names a caller may pass; "trace" is also passed as a
\* level name, which then is its own method name
LogLevelNames == {"REPORT", "INFO", "trace"}
LogMethodNames == {"report", "info", "trace"}
LogNames == LogLevelNames \cup LogMethodNames
\* level numbers a caller may pass: logging.DEBUG - 5 and logging.INFO
LogLevelNums == {5, 20}

\* what a name is bound to: nothing, a level number, or a function that
\* logs at level num (made is the def statement that made it)
Unbound == [is |-> "absent", made |-> "", num |-> 0]
LevelValue(levelNum) == [is |-> "int", made |-> "", num |-> levelNum]
Function(def, levelNum) == [is |-> "function", made |-> def, num |-> levelNum]

\* the logging module as imported: INFO = 20, logging.info, Logger.info
FreshRegistry ==
    [levelToName |-> [n \in LogLevelNums |-> IF n = 20 THEN "INFO" ELSE ""],
     nameToLevel |-> [x \in LogNames |-> IF x = "INFO" THEN 20 ELSE -1],
     moduleAttrs |-> [x \in LogNames |->
                        CASE x = "INFO" -> LevelValue(20)
                          [] x = "info" -> Function("logging", 20)
                          [] OTHER -> Unbound],
     classAttrs |-> [x \in LogNames |->
                       IF x = "info" THEN Function("logging", 20) ELSE Unbound]]

\* str.lower()
Lower(name) ==
    CASE name = "REPORT" -> "report"
      [] name = "INFO" -> "info"
      [] OTHER -> name

\* hasattr(obj, name)
HasAttr(attrs, name) == attrs[name].is # "absent"

\* lines 62-63: if not methodName: methodName = levelName.lower()
MethodNameFor(levelName, methodName) ==
    IF methodName = None \/ methodName = "" THEN Lower(levelName) ELSE methodName

\* lines 65-70: how many of the three warnings are logged
WarningsFor(reg, levelName, method) ==
    (IF HasAttr(reg.moduleAttrs, levelName) THEN 1 ELSE 0)
    + (IF HasAttr(reg.moduleAttrs, method) THEN 1 ELSE 0)
    + (IF HasAttr(reg.classAttrs, method) THEN 1 ELSE 0)

\* lines 82-85: addLevelName and the three setattr calls, in order
Registered(reg, levelName, levelNum, method) ==
    LET r1 == [reg EXCEPT !.levelToName[levelNum] = levelName,
                          !.nameToLevel[levelName] = levelNum]
        r2 == [r1 EXCEPT !.moduleAttrs[levelName] = LevelValue(levelNum)]
        r3 == [r2 EXCEPT !.classAttrs[method] = Function("logForLevel", levelNum)]
    IN [r3 EXCEPT !.moduleAttrs[method] = Function("logToRoot", levelNum)]

\* a slip: the function doing what its docstring announces, raising when
\* the level or method name is already present
addLoggingLevel_result_raising(reg, levelName, levelNum, methodName) ==
    LET method == MethodNameFor(levelName, methodName)
    IN IF WarningsFor(reg, levelName, method) > 0
       THEN [raised |-> "AttributeError", warned |-> 0, registry |-> reg]
       ELSE [raised |-> None, warned |-> 0,
             registry |-> Registered(reg, levelName, levelNum, method)]

\* addLoggingLevel(levelName, levelNum, methodName), lines 27-85
addLoggingLevel_result(reg, levelName, levelNum, methodName) ==
    LET method == MethodNameFor(levelName, methodName)
    IN [raised |-> None,
        warned |-> WarningsFor(reg, levelName, method),
        registry |-> Registered(reg, levelName, levelNum, method)]

NoCall == [levelName |-> "", levelNum |-> 0, methodName |-> "", n |-> 0,
           repeats |-> 0]

\* one call; lastCall counts the calls and how many in a row had these
\* arguments
addLoggingLevel ==
    /\ lastCall.n < MaxLogCalls
    /\ \E levelName \in LogLevelNames, levelNum \in LogLevelNums,
          methodName \in {None, "", "report"} :
          LET out == addLoggingLevel_result(registry, levelName, levelNum,
                                            methodName)
              same == /\ lastCall.levelName = levelName
                      /\ lastCall.levelNum = levelNum
                      /\ lastCall.methodName = methodName
          IN /\ registry' = out.registry
             /\ warnings' = warnings + out.warned
             /\ logRaised' = out.raised
             /\ lastCall' = [levelName |-> levelName, levelNum |-> levelNum,
                             methodName |-> methodName, n |-> lastCall.n + 1,
                             repeats |-> IF same THEN lastCall.repeats + 1 ELSE 1]
    /\ UNCHANGED <<reporterVars, storeVars, worldVars, ret, factoryVars, twin,
                   driverVars, modeVars>>

(* --------------------------- initial states ---------------------------- *)
NoTwin == [initialized |-> FALSE, initVals |-> NoInit, lines |-> <<>>, clock |-> 0]

NoDriver ==
    /\ pc = "idle"
    /\ reportedAt = <<>>

NoLogging ==
    /\ registry = FreshRegistry
    /\ warnings = 0
    /\ lastCall = NoCall
    /\ logRaised = None

NoMode ==
    /\ m_arg = "r"
    /\ modes_arg = {}
    /\ modeOutcome = "none"

NoFactory ==
    /\ cfg = <<>>
    /\ logger = None
    /\ trajectory_interval = 0
    /\ Reporters = <<>>
    /\ outcome = "none"

FreshStore ==
    /\ initialized = FALSE
    /\ initVals = NoInit
    /\ uses_pbc = FALSE
    /\ lines = <<>>
    /\ flushed = 0
    /\ ncframes = NoFrames
    /\ setups = 0
    /\ attempts = 0
    /\ completed = 0
    /\ raised = None
    /\ ret = NoRet
    /\ clock = 0

\* the reporter as its __init__ leaves it
Constructed(k, F, n, fl) ==
    /\ kind = k
    /\ frame_arg = F
    /\ frame_indices = StoredFrames(F)
    /\ reportInterval = n
    /\ flags = fl

Init ==
    /\ \E k \in Kinds, F \in FrameLists, n \in {MaxInterval} :
          \E fl \in (CASE k = "HDF5" -> HDF5FlagChoices
                       [] k = "State" -> StateFlagChoices
                       [] OTHER -> {f \in SUBSET NetCDFFlags :
                                      NetCDF4Reporter_init_accepts(f)}) :
             Constructed(k, F, n, fl)
    /\ hasFlush \in (IF kind = "State" THEN BOOLEAN ELSE {TRUE})
    /\ hasReport \in (IF kind = "State" THEN BOOLEAN ELSE {FALSE})
    /\ sim \in {s \in Simulations(0) :
                  /\ kind # "State" => s.currentIter = -1
                  /\ kind # "NetCDF" => s.hasBox}
    /\ state \in Snapshots
    /\ FreshStore
    /\ NoFactory
    /\ twin = NoTwin
    /\ NoDriver
    /\ NoLogging
    /\ NoMode

\* report called on its own: nothing outside the reporter and its world moves
HDF5_report == BLUESHDF5Reporter_report /\ UNCHANGED extraVars
State_report == BLUESStateDataReporter_report /\ UNCHANGED extraVars
NetCDF_report == NetCDF4Reporter_report /\ UNCHANGED extraVars

Next ==
    \/ Advance
    \/ HDF5_describe
    \/ State_describe
    \/ NetCDF_describe
    \/ HDF5_report
    \/ State_report
    \/ NetCDF_report

Spec == Init /\ [][Next]_vars

(* cadence runs: all three reporters, long step ranges, no reports *)
CadenceFrameLists == {{}, {1}, {1, 100}, {2, 3}}

CadenceStep == Step(MaxCadenceStep, {state})

InitCadence ==
    /\ \E k \in Kinds, F \in CadenceFrameLists, n \in 1..MaxInterval :
          Constructed(k, F, n, IF k = "NetCDF" THEN {"crds"} ELSE {"step"})
    /\ hasFlush = TRUE
    /\ hasReport = FALSE
    /\ sim \in {s \in Simulations(0) : s.currentIter = -1 /\ s.hasBox}
    /\ state \in {s \in Snapshots : s.time = 0}
    /\ FreshStore
    /\ NoFactory
    /\ twin = NoTwin
    /\ NoDriver
    /\ NoLogging
    /\ NoMode

NextCadence ==
    \/ CadenceStep
    \/ HDF5_describe
    \/ State_describe
    \/ NetCDF_describe

SpecCadence == InitCadence /\ [][NextCadence]_vars

(* all-flags runs: the state data reporter under every flag combination *)
FlagsReport == StateReport(MaxFlagReports) /\ UNCHANGED extraVars

InitFlags ==
    /\ \E fl \in SUBSET StateFlags : Constructed("State", {}, 1, fl)
    /\ hasFlush = FALSE
    /\ hasReport = TRUE
    /\ sim \in {s \in Simulations(1) :
                  s.currentStep = 1 /\ s.currentIter = -1 /\ s.hasBox}
    /\ state \in {s \in Snapshots : s.time = 13 /\ ~s.bad}
    /\ FreshStore
    /\ NoFactory
    /\ twin = NoTwin
    /\ NoDriver
    /\ NoLogging
    /\ NoMode

NextFlags == FlagsReport

SpecFlags == InitFlags /\ [][NextFlags]_vars

(* factory runs *)
InitFactory ==
    /\ \E p1 \in OptionsFor("state") \cup {Absent},
          p2 \in OptionsFor("traj_netcdf") \cup {Absent},
          p3 \in OptionsFor("restart") \cup {Absent},
          p4 \in OptionsFor("progress") \cup {Absent},
          p5 \in OptionsFor("stream") \cup {Absent},
          p6 \in OptionsFor(UnknownKey) \cup {Absent} :
          LET pick == [k \in AllKeys |->
                         CASE k = "state" -> p1
                           [] k = "traj_netcdf" -> p2
                           [] k = "restart" -> p3
                           [] k = "progress" -> p4
                           [] k = "stream" -> p5
                           [] OTHER -> p6]
          IN cfg = [k \in {x \in AllKeys : pick[x] # Absent} |-> pick[k]]
    /\ logger \in {None, "root"}
    /\ trajectory_interval = 0
    /\ Reporters = <<>>
    /\ outcome = "constructed"
    /\ Constructed("State", {}, 1, {})
    /\ hasFlush = FALSE
    /\ hasReport = FALSE
    /\ sim \in {s \in Simulations(0) : s.currentIter = -1 /\ s.hasBox}
    /\ state \in {s \in Snapshots : s.time = 0}
    /\ FreshStore
    /\ twin = NoTwin
    /\ NoDriver
    /\ NoLogging
    /\ NoMode

NextFactory == makeReporters

SpecFactory == InitFactory /\ [][NextFactory]_vars

(* ============================== claims ================================= *)
StepsReturned == ret[1]
Described == ret # NoRet

\* C1: with an empty frame list and report interval n >= 1, describeNextReport
\* at current step k returns n - (k mod n) as its steps value, for each of
\* the three reporters.
C1_IntervalCadence ==
    (Described /\ frame_arg = {}) =>
        /\ reportInterval >= 1
        /\ StepsReturned = reportInterval - (sim.currentStep % reportInterval)

C1_Witness ==
    /\ Described
    /\ frame_arg = {}
    /\ kind = "NetCDF"
    /\ reportInterval = 3
    /\ sim.currentStep = 7
    /\ StepsReturned = 2

\* C2: with a non-empty frame list F, describeNextReport returns 1 exactly
\* when the current step is x - 1 for some x in F and -1 at every other
\* step, whatever the report interval.
C2_FrameListCadence ==
    (Described /\ frame_arg # {}) =>
        /\ frame_indices = {x - 1 : x \in frame_arg}
        /\ StepsReturned = IF \E x \in frame_arg : sim.currentStep = x - 1
                           THEN 1 ELSE -1

C2_Witness ==
    /\ Described
    /\ kind = "State"
    /\ frame_arg = {1, 100}
    /\ reportInterval = 2
    /\ sim.currentStep = 99
    /\ StepsReturned = 1

\* what the store holds: header, records and frames
Stored == IF kind = "NetCDF" THEN ncframes["time"] ELSE Len(lines)
HeaderCount == Cardinality({i \in 1..Len(lines) : lines[i].type = "header"})

\* C3: over any sequence of report calls on one instance the one-time setup
\* runs exactly once, on the first call and before the first record; the
\* state data reporter's header row appears exactly once and is the first
\* line of the store.
C3_SetupOnce ==
    /\ setups <= 1
    /\ attempts >= 1 => (setups = 1 /\ initialized)
    /\ Records >= 1 => setups = 1
    /\ kind = "State" =>
          /\ HeaderCount = setups
          /\ \A i \in 1..Len(lines) : (lines[i].type = "header") <=> (i = 1)

C3_Witness ==
    /\ kind = "State"
    /\ completed >= 2
    /\ setups = 1
    /\ HeaderCount = 1
    /\ lines[1].type = "header"

\* C4: every report call that completes appends exactly one record: after k
\* completed calls the store holds exactly k records besides the header.
C4_OneRecordPerCall ==
    /\ Records = completed
    /\ completed <= attempts

C4_Witness ==
    /\ kind = "State"
    /\ attempts = 3
    /\ completed = 2
    /\ Records = 2
    /\ Len(lines) = 3

\* C5 as stated: at the end of every completed report call of every
\* reporter, nothing that was appended is left unflushed.
C5_AlwaysFlushed ==
    (completed >= 1 /\ raised = None) => flushed = Stored

\* C5 as amended: a reporter whose store has a flush operation leaves nothing
\* unflushed once a report call has run; the state data reporter on an
\* output without a flush operation never flushes anything.
C5_FlushedWhenFlushable ==
    attempts >= 1 => flushed = (IF hasFlush THEN Stored ELSE 0)

C5_Witness ==
    /\ kind = "State"
    /\ hasFlush
    /\ completed = 2
    /\ Len(lines) = 3
    /\ flushed = 3

\* C10: no describeNextReport or report call of any reporter changes the
\* state snapshot it is handed.
C10_SnapshotUntouched ==
    [][(attempts' # attempts \/ (ret' # NoRet /\ ret' # ret)) => state' = state]_vars

C10_Witness ==
    /\ completed >= 1
    /\ Described
    /\ kind = "NetCDF"
    /\ state.pos = 7

(* the factory *)
RecognizedSet == {RecognizedKeys[i] : i \in 1..Len(RecognizedKeys)}
Present == DOMAIN cfg \cap RecognizedSet
FileBacked == {"state", "traj_netcdf", "restart", "progress"}
Failed == outcome \notin {"constructed", "returned"}

\* C6: makeReporters returns exactly one reporter for each recognized key
\* present in the mapping and nothing for any other key; an unknown key is
\* never the cause of an error.
C6_OnePerRecognizedKey ==
    /\ outcome = "returned" =>
          /\ Len(Reporters) = Cardinality(Present)
          /\ \A k \in Present :
                Cardinality({i \in 1..Len(Reporters) :
                                Reporters[i].class = Class(k)}) = 1
    /\ (outcome # "constructed" /\ Present = {}) =>
          (outcome = "returned" /\ Reporters = <<>>)
    /\ Failed => \E k \in Present : "outfname" \in DOMAIN cfg[k]

C6_Witness ==
    /\ outcome = "returned"
    /\ DOMAIN cfg = {"state", UnknownKey}
    /\ Len(Reporters) = 1
    /\ Reporters[1].file = "blues.ene"

\* C7: once makeReporters has run (and no constructor outside this file has
\* refused its arguments), every file-backed kind in the mapping has its
\* reporter in the list, built from the sub-mapping and writing to the
\* sub-mapping's outfname, or else the prefix, plus the kind's extension.
C7_OutfnameHonoured ==
    outcome \in {"returned", "TypeError: NetCDF4Reporter"} =>
        \A k \in FileBacked \cap DOMAIN cfg :
            \E i \in 1..Len(Reporters) :
                /\ Reporters[i].class = Class(k)
                /\ Reporters[i].file = FileName(k, cfg[k])
                /\ Reporters[i].kwargs = cfg[k]

TrajHasInterval ==
    /\ "traj_netcdf" \in DOMAIN cfg
    /\ "reportInterval" \in DOMAIN cfg["traj_netcdf"]

\* C8: after makeReporters, trajectory_interval is the reportInterval of the
\* traj_netcdf sub-mapping when both are present; otherwise it keeps the 0
\* of construction, whatever the other kinds' options are.
C8_TrajectoryInterval ==
    /\ outcome = "returned" =>
          trajectory_interval = (IF TrajHasInterval
                                 THEN cfg["traj_netcdf"]["reportInterval"] ELSE 0)
    /\ ~TrajHasInterval => trajectory_interval = 0

C8_Witness ==
    /\ outcome = "returned"
    /\ TrajHasInterval
    /\ trajectory_interval = 2
    /\ "state" \in DOMAIN cfg
    /\ "reportInterval" \in DOMAIN cfg["state"]
    /\ cfg["state"]["reportInterval"] # 2

(* the columns of the state data reporter *)
Canonical ==
    << <<"currentIter", "Iter">>, <<"progress", "Progress (%)">>,
       <<"step", "Step">>, <<"time", "Time (ps)">>,
       <<"alchemicalLambda", "alchemicalLambda">>,
       <<"protocolWork", "protocolWork">>,
       <<"potentialEnergy", "Potential Energy (kJ/mole)">>,
       <<"kineticEnergy", "Kinetic Energy (kJ/mole)">>,
       <<"totalEnergy", "Total Energy (kJ/mole)">>,
       <<"temperature", "Temperature (K)">>, <<"volume", "Box Volume (nm^3)">>,
       <<"density", "Density (g/mL)">>, <<"speed", "Speed (ns/day)">>,
       <<"elapsedTime", "Elapsed Time (s)">>,
       <<"remainingTime", "Time Remaining">> >>

IsEnabled(p) == p[1] \in flags
EnabledCanonical == SelectSeq(Canonical, IsEnabled)
ExpectedHeaders == [i \in 1..Len(EnabledCanonical) |-> EnabledCanonical[i][2]]

\* the quantity a header names, for clock readings c1 and c2
Quantity(h, c1, c2) ==
    CASE h = "Iter" -> Whole(sim.currentIter)
      [] h = "Progress (%)" -> Percent(sim.currentStep, StateParams.totalSteps)
      [] h = "Step" -> Whole(sim.currentStep)
      [] h = "Time (ps)" -> Num(state.time)
      [] h = "alchemicalLambda" -> Num(sim.lambda)
      [] h = "protocolWork" -> Num(sim.work)
      [] h = "Potential Energy (kJ/mole)" -> Num(state.pe)
      [] h = "Kinetic Energy (kJ/mole)" -> Num(state.ke)
      [] h = "Total Energy (kJ/mole)" -> Num(state.ke + state.pe)
      [] h = "Temperature (K)" -> Quot(2 * state.ke, StateParams.dof)
      [] h = "Box Volume (nm^3)" -> Num(state.box[1] * state.box[2] * state.box[3])
      [] h = "Density (g/mL)" ->
            Quot(StateParams.totalMass, state.box[1] * state.box[2] * state.box[3])
      [] h = "Speed (ns/day)" -> Speed(state, c1, initVals)
      [] h = "Elapsed Time (s)" -> Num(c2 - initVals.clock)
      [] h = "Time Remaining" -> RemainingTime(sim.currentStep, c1, initVals)
      [] OTHER -> Dashes

\* C9: for every combination of option flags the header row lists exactly the
\* enabled fields in the canonical order, and every record has as many
\* columns as the header, the i-th value being the quantity the i-th header
\* names.
C9_HeadersMatchValues ==
    \A i \in 1..Len(lines) :
        IF lines[i].type = "header"
        THEN lines[i].cols = ExpectedHeaders
        ELSE /\ Len(lines[i].cols) = Len(lines[1].cols)
             /\ \E c1 \in initVals.clock..clock : \E c2 \in c1..clock :
                   \A j \in 1..Len(lines[i].cols) :
                       lines[i].cols[j] = Quantity(lines[1].cols[j], c1, c2)

C9_Witness ==
    /\ flags = StateFlags
    /\ Len(lines) = 2
    /\ Len(lines[1].cols) = 15
    /\ Len(lines[2].cols) = 15
    /\ lines[1].cols[15] = "Time Remaining"

\* C11: when the state data reporter's output has no flush, the failed flush
\* is swallowed: no report call ends in AttributeError, a call ends without
\* an exception unless the error check rejected the snapshot, the header
\* (first call) and one record per returned call are written, and the
\* initialized flag is set from the first call on.
C11_FlushFailureSwallowed ==
    (kind = "State" /\ ~hasFlush /\ attempts >= 1) =>
        /\ raised \in {None, "ValueError"}
        /\ initialized
        /\ setups = 1
        /\ HeaderCount = 1
        /\ lines[1].type = "header"
        /\ Records = completed
        /\ raised = None => /\ completed >= 1
                            /\ lines[Len(lines)].type = "record"
        /\ flushed = 0

C11_Witness ==
    /\ kind = "State"
    /\ ~hasFlush
    /\ attempts = 2
    /\ completed = 2
    /\ raised = None
    /\ initialized
    /\ Len(lines) = 3
    /\ flushed = 0

(* logging runs: addLoggingLevel called again and again *)
\* the variables of the reporter side, at rest
Bystander ==
    /\ Constructed("State", {}, 1, {})
    /\ hasFlush = FALSE
    /\ hasReport = FALSE
    /\ sim \in {s \in Simulations(0) : s.currentIter = -1 /\ s.hasBox}
    /\ state \in {s \in Snapshots : s.time = 0}
    /\ FreshStore
    /\ NoFactory

InitLogging ==
    /\ Bystander
    /\ twin = NoTwin
    /\ NoDriver
    /\ NoLogging
    /\ NoMode

NextLogging == addLoggingLevel

SpecLogging == InitLogging /\ [][NextLogging]_vars

\* the method name a call's arguments stand for
CalledMethod == MethodNameFor(lastCall.levelName, lastCall.methodName)
\* the last call found its level or method name already defined
AlreadyDefined ==
    WarningsFor(registry, lastCall'.levelName,
                MethodNameFor(lastCall'.levelName, lastCall'.methodName)) > 0

ClockFlags == {"speed", "elapsedTime", "remainingTime"}
ClockHeaders == {"Speed (ns/day)", "Elapsed Time (s)", "Time Remaining"}

TwinFlagChoices ==
    {a \cup b : a \in SUBSET {"currentIter", "step", "time"},
                b \in SUBSET ClockFlags}

\* BLUESStateDataReporter.report (lines 563-600) as a function of the run it
\* acts on: d0, d1, d2 are that run's readings of time.time() (lines 583,
\* 622, 663); the output has a flush, so no flush attempt fails
TwinAfter(run, simulation, st, d0, d1, d2) ==
    LET first == ~run.initialized
        iv == IF first
              THEN [clock |-> d0, simTime |-> st.time,
                    steps |-> simulation.currentStep, natom |-> 0]
              ELSE run.initVals
        headed == IF first
                  THEN WithHeader(run.lines,
                           BLUESStateDataReporter_constructHeaders(flags))
                  ELSE run.lines
    IN IF CheckForErrorsRaises(
              BLUESStateDataReporter_describeNextReport(simulation)[5], st)
       THEN [initialized |-> TRUE, initVals |-> iv, lines |-> headed,
             clock |-> d0]
       ELSE [initialized |-> TRUE, initVals |-> iv,
             lines |-> WithRecord(headed,
                           BLUESStateDataReporter_constructReportValues(
                               flags, simulation, st, iv, d1, d2)),
             clock |-> d2]

\* both runs make their next report call
TwinReport ==
    /\ StateReport(MaxTwinReports)
    /\ \E d0 \in twin.clock..MaxClock : \E d1 \in d0..MaxClock :
          \E d2 \in d1..MaxClock :
             /\ twin.initialized => d0 = twin.clock
             /\ twin' = TwinAfter(twin, sim, state, d0, d1, d2)
    /\ UNCHANGED <<driverVars, loggingVars, modeVars>>

TwinStep == Step(MaxTwinStep, {s \in Snapshots : s.time > 0 /\ ~s.bad})

InitTwin ==
    /\ \E fl \in TwinFlagChoices : Constructed("State", {}, 1, fl)
    /\ hasFlush = TRUE
    /\ hasReport = FALSE
    /\ sim \in {s \in Simulations(0) : s.currentIter = -1 /\ s.hasBox}
    /\ state \in {s \in Snapshots : s.time = 0}
    /\ FreshStore
    /\ NoFactory
    /\ twin = NoTwin
    /\ NoDriver
    /\ NoLogging
    /\ NoMode

NextTwin ==
    \/ TwinReport
    \/ TwinStep

SpecTwin == InitTwin /\ [][NextTwin]_vars

\* C13: two runs of one reporter configuration, fed the same steps,
\* snapshots and integrator values, write the same header and records,
\* for every flag combination
C13_SameRecords ==
    twin.initialized => twin.lines = lines

\* C13 as amended: the two runs agree in the header and in every column
\* except Speed, Elapsed Time and Time Remaining, which are computed from
\* time.time(); with those three flags off the outputs are identical.
C13_SameRecordsButClockColumns ==
    twin.initialized =>
        /\ Len(twin.lines) = Len(lines)
        /\ twin.lines[1] = lines[1]
        /\ \A i \in 2..Len(lines) :
              /\ twin.lines[i].type = lines[i].type
              /\ Len(twin.lines[i].cols) = Len(lines[i].cols)
              /\ \A j \in 1..Len(lines[i].cols) :
                    lines[1].cols[j] \notin ClockHeaders =>
                        twin.lines[i].cols[j] = lines[i].cols[j]
        /\ flags \cap ClockFlags = {} => twin.lines = lines

C13_Witness ==
    /\ twin.initialized
    /\ flags = {"currentIter", "step", "time"}
    /\ Len(lines) = 3
    /\ twin.initVals.clock # initVals.clock
    /\ twin.clock # clock
    /\ twin.lines = lines

(* mode runs: _check_mode applied to every mode and every list of modes *)
\* a mode no list of modes holds
OtherMode == "x"

InitMode ==
    /\ Bystander
    /\ twin = NoTwin
    /\ NoDriver
    /\ NoLogging
    /\ m_arg \in FileModes \cup {OtherMode}
    /\ modes_arg \in SUBSET FileModes
    /\ modeOutcome = "none"

NextMode == CheckMode

SpecMode == InitMode /\ [][NextMode]_vars

\* C14: _check_mode(m, modes) raises ValueError exactly when m is not in
\* modes; otherwise it returns, and in both cases it changes nothing.
C14_RaisesIffNotMember ==
    [][modeOutcome' # modeOutcome =>
          /\ modeOutcome' = "ValueError" <=> m_arg \notin modes_arg
          /\ modeOutcome' = "returned" <=> m_arg \in modes_arg
          /\ UNCHANGED <<m_arg, modes_arg, reporterVars, storeVars, worldVars,
                         factoryVars, loggingVars>>
      ]_vars

C14_Witness ==
    /\ modeOutcome = "ValueError"
    /\ m_arg = "w"
    /\ modes_arg = {"r", "a"}

(* loop runs: a simulation loop that asks the reporter for the steps until
   its next report, advances exactly that many steps and calls report *)
\* describeNextReport of the instance at hand
DescribeNextReport(simulation) ==
    CASE kind = "HDF5" -> BLUESHDF5Reporter_describeNextReport(simulation)
      [] kind = "State" -> BLUESStateDataReporter_describeNextReport(simulation)
      [] OTHER -> NetCDF4Reporter_describeNextReport(simulation)

LoopAsk ==
    /\ pc = "ask"
    /\ Len(reportedAt) < MaxReports
    /\ ret' = DescribeNextReport(sim)
    /\ pc' = "advance"
    /\ UNCHANGED <<reporterVars, storeVars, worldVars, factoryVars, reportedAt,
                   twin, loggingVars, modeVars>>

\* a steps value below 1 asks for no report: the loop runs on without one
LoopAdvance ==
    /\ pc = "advance"
    /\ IF ret[1] >= 1
       THEN /\ sim' = [sim EXCEPT !.currentStep = @ + ret[1]]
            /\ pc' = "report"
       ELSE /\ sim' = [sim EXCEPT !.currentStep = @ + 1]
            /\ pc' = "ask"
    /\ state' \in {s \in Snapshots : ~s.bad}
    /\ UNCHANGED <<reporterVars, storeVars, clock, ret, factoryVars, reportedAt,
                   twin, loggingVars, modeVars>>

LoopReport ==
    /\ pc = "report"
    /\ \/ BLUESHDF5Reporter_report
       \/ BLUESStateDataReporter_report
       \/ NetCDF4Reporter_report
    /\ reportedAt' = Append(reportedAt, sim.currentStep)
    /\ pc' = "ask"
    /\ UNCHANGED <<twin, loggingVars, modeVars>>

InitLoop ==
    /\ \E k \in Kinds, n \in 1..MaxInterval :
          Constructed(k, {}, n, CASE k = "HDF5" -> {"coordinates", "time"}
                                  [] k = "State" -> {"step", "time"}
                                  [] OTHER -> {"crds"})
    /\ hasFlush \in (IF kind = "State" THEN BOOLEAN ELSE {TRUE})
    /\ hasReport = FALSE
    /\ sim \in {s \in Simulations(0) : s.currentIter = -1 /\ s.hasBox}
    /\ state \in {s \in Snapshots : s.time = 0}
    /\ FreshStore
    /\ NoFactory
    /\ twin = NoTwin
    /\ pc = "ask"
    /\ reportedAt = <<>>
    /\ NoLogging
    /\ NoMode

NextLoop ==
    \/ LoopAsk
    \/ LoopAdvance
    \/ LoopReport

SpecLoop == InitLoop /\ [][NextLoop]_vars

\* C15: under that loop, started at step 0 on an interval-mode reporter
\* (interval n >= 1, empty frame list), every steps value returned is in
\* 1..n and the report calls fall exactly on steps n, 2n, 3n, ...: the i-th
\* report is at step i*n, and no step past the last report is a multiple
\* of n that went unreported.
C15_ReportsAtMultiples ==
    pc # "idle" =>
        /\ reportInterval >= 1
        /\ Described => StepsReturned \in 1..reportInterval
        /\ attempts = Len(reportedAt)
        /\ \A i \in 1..Len(reportedAt) : reportedAt[i] = i * reportInterval
        /\ pc = "report" => sim.currentStep = (Len(reportedAt) + 1) * reportInterval
        /\ pc \in {"ask", "advance"} =>
              sim.currentStep = Len(reportedAt) * reportInterval

C15_Witness ==
    /\ pc = "ask"
    /\ kind = "NetCDF"
    /\ reportInterval = 3
    /\ reportedAt = <<3, 6, 9>>
    /\ sim.currentStep = 9
    /\ completed = 3

\* the flag (or, for the cell, the periodicity found at setup) that turns a
\* per-frame variable of the NetCDF file on
NcEnabled(v) ==
    CASE v = "coordinates" -> "crds" \in flags
      [] v = "velocities" -> "vels" \in flags
      [] v = "forces" -> "frcs" \in flags
      [] v = "cell_lengths_angles" -> uses_pbc
      [] v = "protocolWork" -> "protocolWork" \in flags
      [] v = "alchemicalLambda" -> "alchemicalLambda" \in flags
      [] OTHER -> TRUE

\* C16: after any sequence of NetCDF4Reporter.report calls the time variable
\* has one frame per completed call, every enabled per-frame variable
\* (coordinates, velocities, forces, protocolWork, alchemicalLambda, and the
\* cell lengths and angles when periodic) has as many frames as time, and
\* no disabled variable has any.
C16_FramesInStep ==
    kind = "NetCDF" =>
        /\ ncframes["time"] = completed
        /\ \A v \in NcVars :
              ncframes[v] = IF NcEnabled(v) THEN ncframes["time"] ELSE 0

C16_Witness ==
    /\ kind = "NetCDF"
    /\ flags = {"crds", "frcs", "alchemicalLambda"}
    /\ uses_pbc
    /\ completed = 3
    /\ ncframes["forces"] = 3
    /\ ncframes["cell_lengths_angles"] = 3
    /\ ncframes["velocities"] = 0
    /\ ncframes["protocolWork"] = 0

(* bare runs: NetCDF4Reporter.report on an instance whose crds, vels and frcs
   are all off.  NetCDF4Reporter.__init__ stores the three flags as given
   and report tests nothing but them; whether the parent constructor lets
   such an instance through is decided outside this module, and the three
   attributes are public and can be switched off after construction. *)
InitBare ==
    /\ \E F \in FrameLists, n \in 1..MaxInterval,
          fl \in SUBSET {"protocolWork", "alchemicalLambda"} :
          Constructed("NetCDF", F, n, fl)
    /\ hasFlush = TRUE
    /\ hasReport = FALSE
    /\ sim \in {s \in Simulations(0) : s.currentIter = -1}
    /\ state \in Snapshots
    /\ FreshStore
    /\ NoFactory
    /\ twin = NoTwin
    /\ NoDriver
    /\ NoLogging
    /\ NoMode

NextBare ==
    \/ Advance
    \/ NetCDF_describe
    \/ NetCDF_report

SpecBare == InitBare /\ [][NextBare]_vars

C18_CheckBetweenSetupAndWrite ==
    [][(kind \in {"State", "HDF5"} /\ attempts' = attempts + 1) =>
          /\ initialized'
          /\ setups' = 1
          /\ HeaderCount' = IF kind = "State" THEN 1 ELSE 0
          /\ raised' = "ValueError" =>
                /\ Records' = Records
                /\ completed' = completed
                /\ Len(lines') = Len(lines) + (IF initialized \/ kind = "HDF5"
                                               THEN 0 ELSE 1)
          /\ raised' = None => Records' = Records + 1
      ]_vars

C18_Witness ==
    /\ kind = "State"
    /\ attempts = 3
    /\ completed = 1
    /\ raised = None
    /\ initialized
    /\ setups = 1
    /\ HeaderCount = 1
    /\ Len(lines) = 2

\* C19: the state data reporter changes the simulation object in one case
\* only: a report that writes a record with the currentIter flag on for a
\* simulation without a currentIter attribute sets the attribute to 0 and
\* writes 0 in the Iter column.  With the flag off or the attribute present
\* the simulation is left as it was and the Iter column, if any, shows the
\* existing value; a report that raises and a describeNextReport call
\* leave the simulation as it was too.
C19_CurrentIterOnly ==
    [][kind = "State" =>
          /\ attempts' = attempts + 1 =>
                IF completed' = completed + 1
                THEN /\ sim' = IF "currentIter" \in flags /\ ~HasCurrentIter(sim)
                               THEN [sim EXCEPT !.currentIter = 0]
                               ELSE sim
                     /\ "currentIter" \in flags =>
                           lines'[Len(lines')].cols[1]
                               = Whole(IF HasCurrentIter(sim)
                                       THEN sim.currentIter ELSE 0)
                ELSE sim' = sim
          /\ (attempts' = attempts /\ ret' # NoRet) => sim' = sim
      ]_vars

C19_Witness ==
    /\ kind = "State"
    /\ "currentIter" \in flags
    /\ sim.currentIter = 0
    /\ completed = 1
    /\ lines[Len(lines)].type = "record"
    /\ lines[Len(lines)].cols[1] = Whole(0)

====
